---- MODULE Spec2Model ----
(***************************************************************************)
(* Model of packages/kit/src/module/install.ts: installModule,             *)
(* loadNuxtModuleInstance, getDirectory and normalizeModuleTranspilePath.  *)
(*                                                                         *)
(* A path is a sequence of tokens; the token "/" is the separator, every   *)
(* other token is one path segment.  A JavaScript value is a tuple whose   *)
(* first element is its tag.  Collaborators that the file imports          *)
(* (resolvePath, importModule, requireModule, the file system, the module  *)
(* callable, getMeta, resolveAlias) are nondeterministic outcomes.         *)
(***************************************************************************)
EXTENDS Integers, Sequences, FiniteSets, TLC

VARIABLES
    installedModules,   \* nuxt.options._installedModules (the ledger)
    transpile,          \* nuxt.options.build.transpile
    modulesDir,         \* nuxt.options.modulesDir
    call,               \* the installModule activations, one per caller
    started,            \* number of installModule calls issued so far
    moduleJson,         \* what a readable sidecar module.json parses to
    runtimeMeta,        \* what the callable's getMeta() resolves to, if any
    files,              \* the regular files of the file system
    layers,             \* nuxt.options._layers
    nuxt2,              \* whether the nuxt passed to installModule is Nuxt 2
    ambientNuxt2,       \* whether the nuxt that useNuxt() returns is Nuxt 2
    probe               \* the last direct call of a path helper, if any

vars == <<installedModules, transpile, modulesDir, call, started,
          moduleJson, runtimeMeta, files, layers, nuxt2, ambientNuxt2, probe>>

nuxtVars == <<installedModules, transpile, modulesDir>>

worldVars == <<moduleJson, runtimeMeta, files, layers, nuxt2, ambientNuxt2,
               probe>>

-----------------------------------------------------------------------------
(* Bounds *)

MaxCalls == 2

\* longest generated path, in tokens, given to the path helpers directly
MaxPathLen == 4

-----------------------------------------------------------------------------
(* JavaScript values *)

Undefined == <<"undefined">>

Null == <<"null">>

Str(p) == <<"string", p>>

\* a function value; origin 0 is the caller, 1..3 the candidate it was loaded from
Fn(origin) == <<"function", origin>>

\* a truthy value that is not a function
Obj(origin) == <<"object", origin>>

TypeOf(v) == v[1]

IsNullish(v) == v = Undefined \/ v = Null

Truthy(v) ==
    CASE TypeOf(v) = "string" -> Len(v[2]) > 0
      [] TypeOf(v) \in {"function", "object", "array", "map", "scalar"} -> TRUE
      [] OTHER -> FALSE

-----------------------------------------------------------------------------
(* pathe: join, dirname, isAbsolute, resolve *)

SEP == "/"

SepIndices(p) == {n \in 1..Len(p) : p[n] = SEP}

Max(S) == CHOOSE n \in S : \A m \in S : m <= n

Join(p, seg) ==
    IF p = <<>> THEN <<seg>>
    ELSE IF p[Len(p)] = SEP THEN p \o <<seg>>
    ELSE p \o <<SEP, seg>>

Dirname(p) ==
    IF SepIndices(p) = {} THEN <<".">>
    ELSE IF Max(SepIndices(p)) = 1 THEN <<SEP>>
    ELSE SubSeq(p, 1, Max(SepIndices(p)) - 1)

IsAbsolute(p) == Len(p) > 0 /\ p[1] = SEP

Resolve(dir, seg) == Join(dir, seg)

-----------------------------------------------------------------------------
(* The file system the build runs on, and the configuration layers *)

ProjectDir == <<SEP, "proj">>

FooIndex == <<SEP, "proj", SEP, "node_modules", SEP, "foo", SEP, "index.js">>

LocalModule == <<SEP, "proj", SEP, "modules", SEP, "bar.js">>

FsFiles == {FooIndex, LocalModule}

FsDirs == {ProjectDir,
           <<SEP, "proj", SEP, "node_modules">>,
           <<SEP, "proj", SEP, "node_modules", SEP, "foo">>,
           <<SEP, "proj", SEP, "modules">>}

\* lstatSync(p): "missing" stands for the ENOENT exception
Lstat(p) ==
    IF p \in files THEN "file"
    ELSE IF p \in FsDirs THEN "dir"
    ELSE "missing"

\* the layers of the project: srcDir and the optional dir.modules override
Layers ==
    << [srcDir |-> ProjectDir, modules |-> Undefined],
       [srcDir |-> <<SEP, "proj", SEP, "node_modules", SEP, "layer">>,
        modules |-> Undefined] >>

-----------------------------------------------------------------------------
(* Specifiers and references a caller may pass *)

EmptySpecifier == <<>>

MyMod == <<"~", SEP, "my-mod">>

Specifiers == {EmptySpecifier, MyMod, FooIndex}

References == {Str(s) : s \in Specifiers} \cup {Fn(0), Obj(0)}

-----------------------------------------------------------------------------
(* getDirectory, normalizeModuleTranspilePath, NODE_MODULES_RE *)

\* a getDirectory without the isAbsolute test
GetDirectoryOfAnyFile(p) == IF Lstat(p) = "file" THEN Dirname(p) ELSE p

GetDirectory(p) ==
    IF IsAbsolute(p) /\ Lstat(p) = "file" THEN Dirname(p) ELSE p

\* the tokens whose text ends in "node_modules"
EndsWithNodeModules(tok) == tok \in {"node_modules", "my_node_modules"}

\* positions n such that the text "node_modules/" ends with token n+1
SplitPoints(p) ==
    {n \in 1..(Len(p) - 1) : EndsWithNodeModules(p[n]) /\ p[n + 1] = SEP}

\* p.split('node_modules/')[1]: the part after the first occurrence
SplitSecond(p) ==
    IF SplitPoints(p) = {} THEN p
    ELSE SubSeq(p, (CHOOSE n \in SplitPoints(p) :
                       \A m \in SplitPoints(p) : n <= m) + 2, Len(p))

\* p.split('node_modules/').pop()
SplitPop(p) ==
    IF SplitPoints(p) = {} THEN p
    ELSE SubSeq(p, Max(SplitPoints(p)) + 2, Len(p))

NormalizeModuleTranspilePath(p) == SplitPop(GetDirectory(p))

\* NODE_MODULES_RE.test(p)
\* a test for a segment named node_modules anywhere, the last one included
NodeModulesSegment(p) == \E n \in 1..Len(p) : p[n] = "node_modules"

\* NODE_MODULES_RE.test(p): /[/\\]node_modules[/\\]/
NodeModulesRE(p) ==
    \E n \in 1..(Len(p) - 2) :
        p[n] = SEP /\ p[n + 1] = "node_modules" /\ p[n + 2] = SEP

LayerModulesDir(l) ==
    Resolve(l.srcDir, IF Truthy(l.modules) THEN l.modules[2] ELSE "modules")

LocalLayerModuleDirs ==
    {LayerModulesDir(layers[n]) :
        n \in {m \in 1..Len(layers) : ~NodeModulesRE(layers[m].srcDir)}}

\* resolveAlias(p): the alias "~" stands for the project directory
ResolveAlias(p) ==
    IF Len(p) > 0 /\ p[1] = "~" THEN ProjectDir \o SubSeq(p, 2, Len(p)) ELSE p

-----------------------------------------------------------------------------
(* Metadata maps and defu *)

Scalar(x) == <<"scalar", x>>

Arr(xs) == <<"array", xs>>

Map(f) == <<"map", f>>

EmptyMap == [k \in {} |-> Undefined]

IsArray(v) == TypeOf(v) = "array"

IsPlainObject(v) == TypeOf(v) = "map"

\* the value _defu stores under a key that both arguments may carry
RECURSIVE DefuMerge(_, _)
DefuValue(value, object, key) ==
    IF key \in DOMAIN object /\ IsArray(value) /\ IsArray(object[key])
    THEN Arr(value[2] \o object[key][2])
    ELSE IF key \in DOMAIN object /\ IsPlainObject(value)
                                  /\ IsPlainObject(object[key])
    THEN Map(DefuMerge(value[2], object[key][2]))
    ELSE value

\* a merge that, like Object.assign, copies null and undefined too
DefuSkipsNothing(value) == FALSE

\* a key of baseObject that _defu skips
DefuSkips(value) == IsNullish(value)

\* _defu(baseObject, defaults) of the defu package, both plain objects
DefuMerge(baseObject, defaults) ==
    [key \in DOMAIN defaults
             \cup {k \in DOMAIN baseObject : ~DefuSkips(baseObject[k])} |->
        IF key \in DOMAIN baseObject /\ ~DefuSkips(baseObject[key])
        THEN DefuValue(baseObject[key], defaults, key)
        ELSE defaults[key]]

PlainOrEmpty(v) == IF IsPlainObject(v) THEN v[2] ELSE EmptyMap

\* defu(source, defaults): the arguments reduced left to right from {}
Defu(source, defaults) ==
    DefuMerge(DefuMerge(EmptyMap, PlainOrEmpty(source)), PlainOrEmpty(defaults))

\* contents of a sidecar module.json
FlatJson == Map([a |-> Scalar("1"), b |-> Scalar("2")])

DeepJson == Map([a |-> Arr(<<"x">>), b |-> Map([c |-> Scalar("1")])])

\* the callable declares no getMeta
NoGetMeta == <<"absent">>

\* what a callable's getMeta() resolves to
OverrideMeta == Map([b |-> Scalar("3")])

NullMeta == Map([a |-> Null, b |-> Scalar("3")])

DeepMeta ==
    Map([a |-> Arr(<<"y">>), b |-> Map([c |-> Null, d |-> Scalar("2")])])

\* the pairs <<module.json content, getMeta() output>> a build may have
MetaWorlds ==
    { <<FlatJson, NoGetMeta>>, <<FlatJson, OverrideMeta>>,
      <<DeepJson, NullMeta>>, <<DeepJson, DeepMeta>>, <<FlatJson, DeepMeta>> }

-----------------------------------------------------------------------------
(* Errors and outcomes of the collaborators *)

NoError == <<"none">>

ResolveError(n) == <<"ResolveError", n>>

ImportError(n) == <<"ImportError", n>>

LoadError(n) == <<"LoadError", n>>

ParseError(n) == <<"ParseError", n>>

TypeError == <<"TypeError">>

CallableError == <<"CallableError">>

GetMetaError == <<"GetMetaError">>

AliasError == <<"AliasError">>

Threw == <<"threw">>

False == <<"boolean", "false">>

Timings5 == <<"timings", "setup5">>

Result(timings) == <<"result", timings>>

\* importModule(src, modulesDir) for candidate n: rejects or resolves
ImportOutcomes(n) == {Threw, Undefined, Fn(n), Obj(n)}

\* requireModule(src, {paths}) for candidate n: throws or returns
RequireOutcomes(n) == {Threw, Undefined, Fn(n), Obj(n)}

\* what the module callable does when invoked
CallOutcomes == {Threw, False, Undefined, Result(Timings5), Result(Undefined)}

\* nuxtModule.getMeta?.()
GetMetaOutcomes ==
    IF runtimeMeta = NoGetMeta THEN {Undefined} ELSE {runtimeMeta, Threw}

\* no path helper was called directly
NoProbe == [fn |-> "none", p |-> <<>>, out |-> <<>>]

-----------------------------------------------------------------------------
(* One installModule activation *)

Callers == {1, 2}

Running == {"resolvePath", "importModule", "readFile", "invoke", "getMeta"}

\* the callable has not settled
Pending == <<"pending">>

IdleCall ==
    [pc |-> "idle",
     moduleToInstall |-> Undefined,     \* the reference the caller passed
     nuxtModule |-> Undefined,          \* the local of loadNuxtModuleInstance
     i |-> 0,                           \* index of the candidate in paths
     error |-> NoError,                 \* the local `error` of the loop
     buildTimeModuleMeta |-> Map(EmptyMap),
     returned |-> Pending,              \* history: what the callable gave
     result |-> Undefined,              \* the callable's result, after ?? {}
     thrown |-> NoError,                \* what the call rejected with
     invoked |-> <<>>,                  \* history: the values that were called
     receiver |-> "unset",              \* history: the `this` of the invocation
     resolved |-> <<>>,                 \* history: paths given to resolvePath
     iteration |-> <<>>,                \* history: this candidate's load steps
     entry |-> Undefined,               \* history: the ledger entry pushed
     pre |-> <<>>,                      \* history: nuxtVars when the call began
     failedLate |-> FALSE]              \* history: a call of this caller threw
                                        \*   after its callable had returned

IsString(v) == TypeOf(v) = "string"

\* a looser check that lets every object through
IsFunctionOrObject(v) == TypeOf(v) \in {"function", "object"}

\* typeof nuxtModule === 'function'
IsFunction(v) == TypeOf(v) = "function"

\* const paths = [join(nuxtModule, 'nuxt'), join(nuxtModule, 'module'), nuxtModule]
Paths(s) == <<Join(s, "nuxt"), Join(s, "module"), s>>

Log(r, name) == [r EXCEPT !.iteration = Append(@, name)]

Throw(r, e) == [r EXCEPT !.pc = "thrown", !.thrown = e]

\* an exception of the statements that follow the invocation
ThrowLate(r, e) == [Throw(r, e) EXCEPT !.failedLate = TRUE]

\* if (!nuxtModule && error)
ThrowsRetained(nuxtModule, error) == ~Truthy(nuxtModule) /\ error # NoError

\* the statements after the loop, up to the invocation of the callable
AfterLoad(r) ==
    IF IsString(r.moduleToInstall) /\ ThrowsRetained(r.nuxtModule, r.error)
    THEN Throw(r, r.error)
    ELSE IF ~IsFunction(r.nuxtModule)
    THEN Throw(r, TypeError)
    ELSE [r EXCEPT !.pc = "invoke"]

\* catch (_err) { error = _err; continue }
Continue(r, e) ==
    IF r.i < Len(Paths(r.moduleToInstall[2]))
    THEN [r EXCEPT !.error = e, !.i = @ + 1, !.pc = "resolvePath"]
    ELSE AfterLoad([r EXCEPT !.error = e])

\* nuxtModule = <loaded value>; then the existsSync probe of module.json
Loaded(r, v, sidecar) ==
    IF sidecar
    THEN [Log(r, "existsSync") EXCEPT !.nuxtModule = v, !.pc = "readFile"]
    ELSE AfterLoad([Log(r, "existsSync") EXCEPT !.nuxtModule = v])

\* how importModule(src, modulesDir) settled
ImportSettled(imported) ==
    IF imported = Threw THEN "rejected"
    ELSE IF IsNullish(imported) THEN "nullish"
    ELSE "value"

\* a require that is made whatever the import gave
NeedsRequireAlways(imported) == TRUE

\* whether the nullish-coalescing operator falls through to requireModule
NeedsRequire(imported) == imported = Threw \/ IsNullish(imported)

\* installModule(moduleToInstall, inlineOptions, nuxt) is called
InstallModule(c, ref) ==
    /\ call[c].pc \notin Running
    /\ started < MaxCalls
    /\ started' = started + 1
    /\ LET r == [IdleCall EXCEPT !.moduleToInstall = ref,
                                 !.nuxtModule = ref,
                                 !.pre = nuxtVars,
                                 !.failedLate = call[c].failedLate]
       IN call' = [call EXCEPT ![c] =
                     IF IsString(ref)
                     THEN [r EXCEPT !.i = 1, !.pc = "resolvePath"]
                     ELSE AfterLoad(r)]
    /\ UNCHANGED <<nuxtVars, worldVars>>

\* const src = await resolvePath(path)
ResolvePath(c) ==
    /\ call[c].pc = "resolvePath"
    /\ \E ok \in BOOLEAN :
         LET path == Paths(call[c].moduleToInstall[2])[call[c].i]
             r == [call[c] EXCEPT !.resolved = Append(@, path),
                                  !.iteration = <<>>]
         IN call' = [call EXCEPT ![c] =
                       IF ok
                       THEN [r EXCEPT !.pc = "importModule"]
                       ELSE Throw(r, ResolveError(r.i))]
    /\ UNCHANGED <<nuxtVars, worldVars, started>>

\* await importModule(...).catch(() => null) ?? requireModule(...)
ImportModule(c) ==
    /\ call[c].pc = "importModule"
    /\ \E imported \in ImportOutcomes(call[c].i),
          required \in RequireOutcomes(call[c].i),
          sidecar \in BOOLEAN :
         LET r == Log(Log(call[c], "importModule"), ImportSettled(imported))
         IN call' = [call EXCEPT ![c] =
                IF ~NeedsRequire(imported) THEN Loaded(r, imported, sidecar)
                ELSE IF required = Threw
                THEN Continue(Log(Log(r, "requireModule"), "threw"),
                              LoadError(r.i))
                ELSE Loaded(Log(r, "requireModule"), required, sidecar)]
    /\ UNCHANGED <<nuxtVars, worldVars, started>>

\* buildTimeModuleMeta = JSON.parse(await fsp.readFile(moduleMetadataPath))
ReadFile(c) ==
    /\ call[c].pc = "readFile"
    /\ \E ok \in BOOLEAN :
         call' = [call EXCEPT ![c] =
                    IF ok
                    THEN AfterLoad([Log(call[c], "readFile") EXCEPT
                                       !.buildTimeModuleMeta = moduleJson])
                    ELSE Continue(Log(call[c], "readFile"),
                                  ParseError(call[c].i))]
    /\ UNCHANGED <<nuxtVars, worldVars, started>>

\* (await nuxtModule(inlineOptions, nuxt)) ?? {}
Coalesce(v) == IF IsNullish(v) THEN Result(Undefined) ELSE v

\* a check for a missing result instead of the false result
SetupAbortedIfNullish(result) == IsNullish(result)

\* if (result === false)
SetupAborted(result) == result = False

\* an entry that leaves the timings out
TimingsDropped(result) == Undefined

\* an entry whose missing timings are recorded as null
TimingsOrNull(result) ==
    IF TypeOf(result) = "result" /\ result[2] # Undefined THEN result[2] ELSE Null

\* result.timings
Timings(result) == IF TypeOf(result) = "result" THEN result[2] ELSE Undefined

\* a push of the directory without either test
PushesDirectoryAlways(s) == TRUE

\* directory !== moduleToInstall && !localLayerModuleDirs.has(directory)
PushesDirectory(s) ==
    GetDirectory(s) # s /\ GetDirectory(s) \notin LocalLayerModuleDirs

\* a push without the typeof test: a callable is recorded by its name
TranspileAlways(list, ref) ==
    Append(list, IF IsString(ref)
                 THEN NormalizeModuleTranspilePath(ref[2])
                 ELSE <<"anonymous">>)

\* the transpile list after lines 59-62
TranspileAfter(list, ref) ==
    IF IsString(ref)
    THEN Append(list, NormalizeModuleTranspilePath(ref[2]))
    ELSE list

\* modulesDir after lines 64-68
ModulesDirAfter(list, ref) ==
    IF IsString(ref) /\ PushesDirectory(ref[2])
    THEN Append(list, GetDirectory(ref[2]))
    ELSE list

\* an invocation under both conventions, one after the other
CallModuleTwice(r) ==
    [r EXCEPT !.invoked = Append(Append(@, r.nuxtModule), r.nuxtModule)]

\* isNuxt2(): called without an argument, it tests the nuxt of useNuxt()
IsNuxt2 == ambientNuxt2

\* nuxtModule.call(nuxt.moduleContainer, ...) or nuxtModule(inlineOptions, nuxt)
CallModule(r) ==
    [r EXCEPT !.invoked = Append(@, r.nuxtModule),
              !.receiver = IF IsNuxt2 THEN "nuxt.moduleContainer" ELSE "none"]

\* the callable is invoked and settles; the bookkeeping that follows
Invoke(c) ==
    /\ call[c].pc = "invoke"
    /\ \E outcome \in CallOutcomes :
         LET r == [CallModule(call[c]) EXCEPT !.returned = outcome]
             result == Coalesce(outcome)
         IN IF outcome = Threw
            THEN /\ call' = [call EXCEPT ![c] = Throw(r, CallableError)]
                 /\ UNCHANGED nuxtVars
            ELSE IF SetupAborted(result)
            THEN /\ call' = [call EXCEPT ![c] =
                               [r EXCEPT !.pc = "returned", !.result = result]]
                 /\ UNCHANGED nuxtVars
            ELSE /\ call' = [call EXCEPT ![c] =
                               [r EXCEPT !.pc = "getMeta", !.result = result]]
                 /\ transpile' = TranspileAfter(transpile, r.moduleToInstall)
                 /\ modulesDir' = ModulesDirAfter(modulesDir, r.moduleToInstall)
                 /\ UNCHANGED installedModules
    /\ UNCHANGED <<worldVars, started>>

\* the specifier recorded as it was passed, without resolveAlias
EntryPathUnresolved(ref) == IF IsString(ref) THEN Str(ref[2]) ELSE Undefined

\* an entryPath that is set for a callable too
EntryPathForAll(ref) ==
    IF IsString(ref) THEN Str(ResolveAlias(ref[2])) ELSE Str(<<"anonymous">>)

\* entryPath: typeof moduleToInstall === 'string' ? resolveAlias(...) : undefined
EntryPath(ref) == IF IsString(ref) THEN Str(ResolveAlias(ref[2])) ELSE Undefined

\* the record pushed to nuxt.options._installedModules
Entry(r, meta) ==
    [meta |-> Defu(meta, r.buildTimeModuleMeta),
     timings |-> Timings(r.result),
     entryPath |-> EntryPath(r.moduleToInstall)]

\* a ledger that keeps one copy of equal entries
LedgerDedup(list, entry) ==
    IF \E n \in 1..Len(list) : list[n] = entry THEN list ELSE Append(list, entry)

\* nuxt.options._installedModules.push(entry)
LedgerAfter(list, entry) == Append(list, entry)

\* await nuxtModule.getMeta?.() settles; defu, resolveAlias and the push
GetMeta(c) ==
    /\ call[c].pc = "getMeta"
    /\ \E outcome \in GetMetaOutcomes, aliasOk \in BOOLEAN :
         IF outcome = Threw
         THEN /\ call' = [call EXCEPT ![c] = ThrowLate(call[c], GetMetaError)]
              /\ UNCHANGED installedModules
         ELSE IF IsString(call[c].moduleToInstall) /\ ~aliasOk
         THEN /\ call' = [call EXCEPT ![c] = ThrowLate(call[c], AliasError)]
              /\ UNCHANGED installedModules
         ELSE /\ installedModules' =
                    LedgerAfter(installedModules, Entry(call[c], outcome))
              /\ call' = [call EXCEPT ![c] =
                            [call[c] EXCEPT !.pc = "returned",
                                            !.entry = Entry(call[c], outcome)]]
    /\ UNCHANGED <<transpile, modulesDir, worldVars, started>>

-----------------------------------------------------------------------------
(* The build context after construction.  _installedModules is an array   *)
(* from the schema default on, so the `||= []` of line 72 changes nothing. *)
(* Under Spec a single caller awaits each installModule call before it     *)
(* issues the next one, so only activation 1 is ever used.                 *)

\* a context on which nothing was installed yet
Fresh ==
    /\ installedModules = <<>>
    /\ transpile = <<>>
    /\ modulesDir = << <<SEP, "proj", SEP, "node_modules">> >>
    /\ call = [c \in Callers |-> IdleCall]
    /\ started = 0
    /\ probe = NoProbe

\* the project of Spec: a Nuxt 3 context that is also the ambient one
Project ==
    /\ files = FsFiles
    /\ layers = Layers
    /\ nuxt2 = FALSE
    /\ ambientNuxt2 = FALSE

Init ==
    /\ Fresh
    /\ Project
    /\ \E w \in MetaWorlds : moduleJson = w[1] /\ runtimeMeta = w[2]

\* the steps of an activation that is under way
Proceed(c) ==
    \/ ResolvePath(c)
    \/ ImportModule(c)
    \/ ReadFile(c)
    \/ Invoke(c)
    \/ GetMeta(c)

Step(c) ==
    \/ \E ref \in References : InstallModule(c, ref)
    \/ Proceed(c)

Next == Step(1)

Spec == Init /\ [][Next]_vars

-----------------------------------------------------------------------------
(* The path helpers called directly, and one install, on file systems that *)
(* differ in whether the path is a regular file.                           *)

PathTokens == {SEP, "node_modules", "my_node_modules", "foo", "index.js"}

\* separators and segments alternate and no separator ends the path
WellFormed(p) ==
    /\ \A n \in 1..(Len(p) - 1) : (p[n] = SEP) # (p[n + 1] = SEP)
    /\ Len(p) > 1 => p[Len(p)] # SEP

FooDir == <<SEP, "proj", SEP, "node_modules", SEP, "foo">>

MissingPath == <<SEP, "nonexistent", SEP, "abs", SEP, "path">>

NestedVendored ==
    <<SEP, "proj", SEP, "node_modules", SEP, "foo", SEP, "node_modules",
      SEP, "bar", SEP, "index.js">>

ProbePaths ==
    {p \in UNION {[1..n -> PathTokens] : n \in 0..MaxPathLen} : WellFormed(p)}
        \cup {FooIndex, LocalModule, FooDir, MissingPath, NestedVendored}

\* the paths that can name a regular file: not the empty path, not the root
FilePaths == ProbePaths \ {<<>>, <<SEP>>}

\* getDirectory(p) is called
ProbeGetDirectory ==
    /\ started = 0
    /\ \E p \in ProbePaths :
         probe' = [fn |-> "getDirectory", p |-> p, out |-> GetDirectory(p)]
    /\ UNCHANGED <<nuxtVars, call, started, moduleJson, runtimeMeta, files,
                   layers, nuxt2, ambientNuxt2>>

\* normalizeModuleTranspilePath(p) is called
ProbeNormalize ==
    /\ started = 0
    /\ \E p \in ProbePaths :
         probe' = [fn |-> "normalizeModuleTranspilePath", p |-> p,
                   out |-> NormalizeModuleTranspilePath(p)]
    /\ UNCHANGED <<nuxtVars, call, started, moduleJson, runtimeMeta, files,
                   layers, nuxt2, ambientNuxt2>>

\* a caller's only installModule call
InstallOnce(c, ref) ==
    /\ call[c].pc = "idle"
    /\ probe = NoProbe
    /\ InstallModule(c, ref)

InitPaths ==
    /\ Fresh
    /\ files \in {{}} \cup {{p} : p \in FilePaths}
    /\ layers = Layers
    /\ nuxt2 = FALSE
    /\ ambientNuxt2 = FALSE
    /\ moduleJson = FlatJson
    /\ runtimeMeta = OverrideMeta

NextPaths ==
    \/ ProbeGetDirectory
    \/ ProbeNormalize
    \/ \E p \in {FooIndex, NestedVendored, MyMod} : InstallOnce(1, Str(p))
    \/ Proceed(1)

SpecPaths == InitPaths /\ [][NextPaths]_vars

-----------------------------------------------------------------------------
(* Vocabulary of the properties *)

Ledger(snapshot) == snapshot[1]

\* the call has ended, by returning or by throwing
Ended(r) == r.pc \in {"returned", "thrown"}

\* loadNuxtModuleInstance ran to its end: it returned or it threw after the loop
LoaderEnded(r) ==
    /\ r.pc \in {"invoke", "getMeta", "returned", "thrown"}
    /\ r.thrown[1] # "ResolveError"

\* every candidate was load-attempted and neither load attempt produced a value
AllLoadsFailed(r) ==
    /\ IsString(r.moduleToInstall)
    /\ LoaderEnded(r)
    /\ r.nuxtModule = r.moduleToInstall
    /\ Len(r.resolved) = 3
    /\ r.error = LoadError(3)

\* the loader's final value is the reference passed in or a loaded value
ValueObtained(r) ==
    /\ LoaderEnded(r)
    /\ ~IsString(r.moduleToInstall) \/ r.nuxtModule # r.moduleToInstall

-----------------------------------------------------------------------------
(* Properties *)

\* C1: when the load of each of the three candidates of a string specifier
\* fails, the call throws the load error of the last candidate, the callable
\* is never invoked, and the ledger, transpile list and modulesDir keep the
\* values they had before the call.
C1_LastLoadErrorThrown ==
    \A c \in Callers :
        AllLoadsFailed(call[c]) =>
            /\ call[c].pc = "thrown"
            /\ call[c].thrown = LoadError(3)
            /\ call[c].invoked = <<>>
            /\ nuxtVars = call[c].pre

\* C2: once the sidecar of a loaded candidate failed to parse, the call has
\* thrown that parse error: no later candidate was resolved, the callable was
\* not invoked and no ledger entry was appended.
C2_ParseErrorFatal ==
    \A c \in Callers : \A n \in 1..3 :
        (call[c].error = ParseError(n) \/ call[c].thrown = ParseError(n)) =>
            /\ call[c].pc = "thrown"
            /\ call[c].thrown = ParseError(n)
            /\ Len(call[c].resolved) = n
            /\ call[c].invoked = <<>>
            /\ call[c].entry = Undefined

\* C3 (as stated): whenever the loader's final value is not a function, a
\* TypeError is thrown, nothing is invoked and no ledger entry is appended.
C3_TypeErrorAlways ==
    \A c \in Callers :
        (ValueObtained(call[c]) /\ TypeOf(call[c].nuxtModule) # "function") =>
            /\ call[c].pc = "thrown"
            /\ call[c].thrown = TypeError
            /\ call[c].invoked = <<>>
            /\ call[c].entry = Undefined

\* C3 (amended): whenever the loader's final value is not a function, the
\* loader throws before anything is invoked: the retained candidate error
\* when the value is falsy and an error was retained, a TypeError otherwise;
\* nothing is invoked and the ledger is as before the call.
C3_NonFunctionRejected ==
    \A c \in Callers :
        (ValueObtained(call[c]) /\ TypeOf(call[c].nuxtModule) # "function") =>
            /\ call[c].pc = "thrown"
            /\ call[c].thrown =
                  IF call[c].nuxtModule = Undefined /\ call[c].error # NoError
                  THEN call[c].error
                  ELSE TypeError
            /\ call[c].invoked = <<>>
            /\ call[c].entry = Undefined
            /\ installedModules = Ledger(call[c].pre)

\* C3 witness: the second candidate loaded undefined after the first failed
C3_Witness ==
    /\ ValueObtained(call[1])
    /\ call[1].nuxtModule = Undefined
    /\ call[1].thrown = LoadError(1)
    /\ Len(call[1].resolved) = 2

\* C4: when the callable returned exactly false, the call has returned
\* normally and the ledger, the transpile list and modulesDir are what they
\* were before the call, for string and callable references alike.
C4_FalseAborts ==
    \A c \in Callers :
        call[c].result = False =>
            /\ call[c].pc = "returned"
            /\ call[c].thrown = NoError
            /\ call[c].entry = Undefined
            /\ nuxtVars = call[c].pre

\* C4 witness: a string specifier aborted on a context that already has entries
C4_Witness ==
    /\ call[1].result = False
    /\ call[1].moduleToInstall = Str(FooIndex)
    /\ Len(installedModules) = 1
    /\ Len(transpile) = 1

\* C5: the ledger only grows by appending: a call that returned normally
\* without a false result has appended exactly one entry after the entries
\* that were there before it, with entryPath = resolveAlias(specifier) for a
\* string specifier; every other call, and a call still running, leaves the
\* ledger as it was (no deduplication).
C5_LedgerAppendOnly ==
    LET r == call[1]
        before == Ledger(r.pre)
    IN r.pc # "idle" =>
          IF r.pc = "returned" /\ r.result # False
          THEN /\ Len(installedModules) = Len(before) + 1
               /\ SubSeq(installedModules, 1, Len(before)) = before
               /\ installedModules[Len(installedModules)] = r.entry
               /\ r.moduleToInstall[1] = "string" =>
                     r.entry.entryPath = Str(ResolveAlias(r.moduleToInstall[2]))
          ELSE installedModules = before

\* C5 witness: the same specifier installed twice, two entries in call order
C5_Witness ==
    /\ call[1].pc = "returned"
    /\ call[1].moduleToInstall = Str(MyMod)
    /\ Len(installedModules) = 2
    /\ installedModules[1].entryPath = Str(<<SEP, "proj", SEP, "my-mod">>)
    /\ installedModules[2].entryPath = Str(<<SEP, "proj", SEP, "my-mod">>)

\* C6 (as stated): every call that ended by throwing left the ledger, the
\* transpile list and modulesDir equal to their values from before the call.
C6_AllOrNothing ==
    \A c \in Callers :
        call[c].pc = "thrown" => nuxtVars = call[c].pre

\* C6 (amended): a call that ended by throwing left the ledger as it was; the
\* transpile list and modulesDir are as before too when the error arose in
\* candidate loading, the function check or the callable, or the reference is
\* a callable; when getMeta or alias resolution threw for a string specifier
\* the transpile entry, and the modulesDir entry if one was due, remain.
C6_NoRollback ==
    \A c \in Callers :
        LET r == call[c]
            s == r.moduleToInstall[2]
            late == r.thrown \in {GetMetaError, AliasError}
        IN r.pc = "thrown" =>
              /\ installedModules = Ledger(r.pre)
              /\ (~late \/ r.moduleToInstall[1] # "string") =>
                    nuxtVars = r.pre
              /\ (late /\ r.moduleToInstall[1] = "string") =>
                    /\ transpile =
                          Append(r.pre[2], NormalizeModuleTranspilePath(s))
                    /\ modulesDir =
                          IF GetDirectory(s) # s
                             /\ GetDirectory(s) \notin LocalLayerModuleDirs
                          THEN Append(r.pre[3], GetDirectory(s))
                          ELSE r.pre[3]

\* C6 witness: getMeta threw after the pushes for a specifier in node_modules
C6_Witness ==
    /\ call[1].pc = "thrown"
    /\ call[1].thrown = GetMetaError
    /\ call[1].moduleToInstall = Str(FooIndex)
    /\ transpile = <<<<"foo">>>>
    /\ Len(modulesDir) = 2
    /\ installedModules = <<>>

\* C7: the callable is invoked exactly once in a call whose loader returned
\* it and never in a call whose loader threw; it is not invoked again after
\* any result; an error it throws is the error the call throws.
C7_InvokedOnce ==
    \A c \in Callers :
        LET r == call[c]
        IN /\ Len(r.invoked) <= 1
           /\ r.pc \in {"idle", "resolvePath", "importModule", "readFile",
                        "invoke"} => r.invoked = <<>>
           /\ r.pc \in {"getMeta", "returned"} => r.invoked = <<r.nuxtModule>>
           /\ r.pc = "thrown" =>
                 IF r.thrown[1] \in {"ResolveError", "LoadError",
                                     "ParseError", "TypeError"}
                 THEN r.invoked = <<>>
                 ELSE r.invoked = <<r.nuxtModule>>
           /\ (r.pc = "thrown" /\ r.invoked # <<>> /\ r.result = Undefined) =>
                 r.thrown = CallableError

\* C7 witness: the callable loaded from the second candidate threw
C7_Witness ==
    /\ call[1].pc = "thrown"
    /\ call[1].thrown = CallableError
    /\ call[1].invoked = <<Fn(2)>>

\* the contribution of getMeta to the entry a call pushed
RuntimeMap == IF runtimeMeta = NoGetMeta THEN EmptyMap ELSE runtimeMeta[2]

\* the call pushed a ledger entry
Pushed(r) == r.pc = "returned" /\ r.result # False

\* C8 (as stated): the meta of the appended entry has, for each key, the
\* runtime value when the runtime map has the key and otherwise the
\* build-time value; without getMeta, meta equals the build-time map.
C8_RuntimeValueWins ==
    \A c \in Callers :
        LET r == call[c]
            B == r.buildTimeModuleMeta[2]
            R == RuntimeMap
        IN Pushed(r) =>
              /\ DOMAIN r.entry.meta = DOMAIN R \cup DOMAIN B
              /\ \A k \in DOMAIN r.entry.meta :
                    r.entry.meta[k] = IF k \in DOMAIN R THEN R[k] ELSE B[k]

\* m is R merged over B key by key: B's value where R lacks the key or holds
\* null or undefined, R's array followed by B's where both are arrays, the
\* merge by the same rule where both are maps, R's value otherwise
RECURSIVE MergedOver(_, _, _)
MergedOver(m, R, B) ==
    /\ DOMAIN m = DOMAIN B \cup {k \in DOMAIN R : R[k] \notin {Null, Undefined}}
    /\ \A k \in DOMAIN m :
          IF k \notin DOMAIN R \/ R[k] \in {Null, Undefined}
          THEN m[k] = B[k]
          ELSE IF k \notin DOMAIN B
          THEN m[k] = R[k]
          ELSE IF R[k][1] = "array" /\ B[k][1] = "array"
          THEN m[k] = <<"array", R[k][2] \o B[k][2]>>
          ELSE IF R[k][1] = "map" /\ B[k][1] = "map"
          THEN m[k][1] = "map" /\ MergedOver(m[k][2], R[k][2], B[k][2])
          ELSE m[k] = R[k]

\* C8 (amended): the meta of the appended entry is the runtime map merged
\* over the build-time map: for each key the build-time value when the
\* runtime map lacks the key or holds null or undefined for it, otherwise
\* the runtime value, two arrays being concatenated (runtime first) and two
\* maps merged by the same rule; without getMeta, meta equals the
\* build-time map.
C8_DefuMerge ==
    \A c \in Callers :
        LET r == call[c]
        IN Pushed(r) =>
              /\ MergedOver(r.entry.meta, RuntimeMap, r.buildTimeModuleMeta[2])
              /\ runtimeMeta = NoGetMeta =>
                    r.entry.meta = r.buildTimeModuleMeta[2]

\* C8 witness: arrays concatenated and nested maps merged in a pushed entry
C8_Witness ==
    /\ Pushed(call[1])
    /\ call[1].buildTimeModuleMeta = DeepJson
    /\ runtimeMeta = DeepMeta
    /\ call[1].entry.meta =
          [a |-> <<"array", <<"y", "x">>>>,
           b |-> <<"map", [c |-> <<"scalar", "1">>, d |-> <<"scalar", "2">>]>>]

\* the reference is a callable
CallableRef(r) == r.moduleToInstall[1] = "function"

\* no path resolution, no load, no sidecar probe; no transpile or modulesDir
\* push; an entry, once pushed, has no entryPath
NoFileWork(r) ==
    /\ r.resolved = <<>>
    /\ r.iteration = <<>>
    /\ r.buildTimeModuleMeta = <<"map", EmptyMap>>
    /\ transpile = r.pre[2]
    /\ modulesDir = r.pre[3]
    /\ Pushed(r) => r.entry.entryPath = Undefined

\* C9 (as stated): for a callable reference there is no path resolution, load
\* or sidecar probe, the entry's meta is exactly the getMeta() output, the
\* entryPath is unset and the transpile list and modulesDir are unchanged.
C9_MetaIsGetMetaOutput ==
    \A c \in Callers :
        CallableRef(call[c]) =>
            /\ NoFileWork(call[c])
            /\ (Pushed(call[c]) /\ runtimeMeta # NoGetMeta) =>
                  call[c].entry.meta = runtimeMeta[2]

\* C9 (amended): as stated, except that the entry's meta is the getMeta()
\* output without the keys whose value is null or undefined (empty when the
\* callable has no getMeta).
C9_CallableReference ==
    \A c \in Callers :
        CallableRef(call[c]) =>
            /\ NoFileWork(call[c])
            /\ Pushed(call[c]) =>
                  call[c].entry.meta =
                     [k \in {j \in DOMAIN RuntimeMap :
                                RuntimeMap[j] \notin {Null, Undefined}} |->
                        RuntimeMap[k]]

\* C9 witness: a callable whose getMeta() holds a null was installed
C9_Witness ==
    /\ CallableRef(call[1])
    /\ Pushed(call[1])
    /\ runtimeMeta = NullMeta
    /\ call[1].entry.meta = [b |-> <<"scalar", "3">>]
    /\ Len(installedModules) = 2

\* the candidate that was loaded last had its sidecar read and parsed
SidecarParsed(r) ==
    /\ Len(r.iteration) > 0
    /\ r.iteration[Len(r.iteration)] = "readFile"
    /\ r.error # ParseError(Len(r.resolved))

\* C10: for a string specifier whose loaded candidate has a sidecar declaring
\* M, with a callable without getMeta that returned a result other than
\* false, the appended entry is {meta: M, timings: result.timings,
\* entryPath: resolveAlias(s)} and the callable installed is the one loaded
\* from that candidate.
C10_EntryFromSidecar ==
    \A c \in Callers :
        LET r == call[c]
        IN (Pushed(r) /\ r.moduleToInstall[1] = "string"
                      /\ runtimeMeta = NoGetMeta /\ SidecarParsed(r)) =>
              /\ r.entry = [meta |-> moduleJson[2],
                            timings |-> r.result[2],
                            entryPath |-> Str(ResolveAlias(r.moduleToInstall[2]))]
              /\ installedModules[Len(installedModules)] = r.entry
              /\ r.invoked = <<Fn(Len(r.resolved))>>

\* C10 witness: the second candidate supplied the callable and the sidecar
C10_Witness ==
    /\ Pushed(call[1])
    /\ call[1].moduleToInstall = Str(MyMod)
    /\ call[1].resolved = <<<<"~", SEP, "my-mod", SEP, "nuxt">>,
                            <<"~", SEP, "my-mod", SEP, "module">>>>
    /\ runtimeMeta = NoGetMeta
    /\ call[1].entry = [meta |-> [a |-> <<"scalar", "1">>, b |-> <<"scalar", "2">>],
                        timings |-> <<"timings", "setup5">>,
                        entryPath |-> Str(<<SEP, "proj", SEP, "my-mod">>)]

-----------------------------------------------------------------------------
(* Installs under configurations that differ in their layers.              *)

VendoredLayerDir == <<SEP, "proj", SEP, "node_modules", SEP, "layer">>

VendoredRoot == <<SEP, "proj", SEP, "node_modules">>

\* a file in the modules directory of a layer that sits in node_modules
LayerModule == Join(Join(VendoredLayerDir, "modules"), "y.js")

\* a file in the modules directory of a layer that is node_modules itself
RootModule == Join(Join(VendoredRoot, "modules"), "x.js")

LayerWorlds ==
    {Layers,
     << [srcDir |-> ProjectDir, modules |-> Undefined],
        [srcDir |-> VendoredRoot, modules |-> Undefined] >>,
     << [srcDir |-> ProjectDir, modules |-> Str("foo")] >>}

LayerSpecifiers == {LocalModule, LayerModule, RootModule, MyMod}

InitLayers ==
    /\ Fresh
    /\ files = FsFiles \cup {LayerModule, RootModule}
    /\ layers \in LayerWorlds
    /\ nuxt2 = FALSE
    /\ ambientNuxt2 = FALSE
    /\ moduleJson = FlatJson
    /\ runtimeMeta = OverrideMeta

NextLayers ==
    \/ \E s \in LayerSpecifiers : InstallModule(1, Str(s))
    \/ Proceed(1)

SpecLayers == InitLayers /\ [][NextLayers]_vars

-----------------------------------------------------------------------------
(* One install on a context that need not be the one useNuxt() returns.    *)

InitCompat ==
    /\ Fresh
    /\ files = FsFiles
    /\ layers = Layers
    /\ nuxt2 \in BOOLEAN
    /\ ambientNuxt2 \in BOOLEAN
    /\ moduleJson = FlatJson
    /\ runtimeMeta = OverrideMeta

NextCompat ==
    \/ \E ref \in {Fn(0), Str(MyMod)} : InstallOnce(1, ref)
    \/ Proceed(1)

SpecCompat == InitCompat /\ [][NextCompat]_vars

-----------------------------------------------------------------------------
(* Two callers that each call installModule once on the same context   *)
(* without awaiting each other: their steps interleave at every await. *)

ConcurrentReferences == {Fn(0), Str(FooIndex)}

InitConcurrent ==
    /\ Fresh
    /\ Project
    /\ moduleJson = FlatJson
    /\ runtimeMeta = OverrideMeta

StepConcurrent(c) ==
    \/ \E ref \in ConcurrentReferences : InstallOnce(c, ref)
    \/ Proceed(c)

NextConcurrent == \E c \in Callers : StepConcurrent(c)

SpecConcurrent == InitConcurrent /\ [][NextConcurrent]_vars

-----------------------------------------------------------------------------
(* Properties of the path helpers *)

\* the path without its last segment and the separator before it
ContainingDirectory(p) ==
    IF Len(p) = 2 THEN <<"/">> ELSE SubSeq(p, 1, Len(p) - 2)

\* the positions of the segments named node_modules that a separator follows
VendoredSegments(p) ==
    {n \in 1..(Len(p) - 1) :
        /\ p[n] = "node_modules"
        /\ p[n + 1] = "/"
        /\ n > 1 => p[n - 1] = "/"}

\* the positions where the text "node_modules/" ends a token and a separator
TextOccurrences(p) ==
    {n \in 1..(Len(p) - 1) :
        p[n] \in {"node_modules", "my_node_modules"} /\ p[n + 1] = "/"}

\* the part of p after position n and its separator
After(p, S) ==
    IF S = {} THEN p
    ELSE SubSeq(p, (CHOOSE n \in S : \A m \in S : m <= n) + 2, Len(p))

\* the call appended to the transpile list
AppendedTranspile(r) ==
    /\ r.moduleToInstall[1] = "string"
    /\ r.pc \in {"getMeta", "returned", "thrown"}
    /\ r.result # Undefined
    /\ r.result # <<"boolean", "false">>

\* C11 (as stated): normalizeModuleTranspilePath(p) is what follows the last
\* node_modules segment of p, whether or not p is an existing file, and is
\* getDirectory(p) when p has no such segment.
C11_AfterVendoredSegment ==
    probe.fn = "normalizeModuleTranspilePath" =>
        probe.out = IF VendoredSegments(probe.p) # {}
                    THEN After(probe.p, VendoredSegments(probe.p))
                    ELSE GetDirectory(probe.p)

\* C11 (amended): normalizeModuleTranspilePath(p) is what follows the last
\* occurrence of the text "node_modules/" in getDirectory(p), all of
\* getDirectory(p) when the text does not occur; this is the value that
\* installModule appends to the transpile list for a string specifier.
C11_AfterLastOccurrence ==
    /\ probe.fn = "normalizeModuleTranspilePath" =>
          probe.out = After(GetDirectory(probe.p),
                            TextOccurrences(GetDirectory(probe.p)))
    /\ \A c \in Callers :
          AppendedTranspile(call[c]) =>
              LET d == GetDirectory(call[c].moduleToInstall[2])
              IN transpile = Append(call[c].pre[2], After(d, TextOccurrences(d)))

\* C11 witness: the existing file /proj/node_modules/foo/index.js yields foo
C11_Witness ==
    /\ probe = [fn |-> "normalizeModuleTranspilePath", p |-> FooIndex,
                out |-> <<"foo">>]
    /\ FooIndex \in files

\* C11 witness of the install: the missing file yields foo/index.js
C11_InstallWitness ==
    /\ AppendedTranspile(call[1])
    /\ call[1].moduleToInstall = Str(FooIndex)
    /\ FooIndex \notin files
    /\ transpile = << <<"foo", "/", "index.js">> >>

\* C12: getDirectory(p) is the containing directory of p exactly when p is
\* absolute and an existing regular file, and p itself in every other case
\* (relative path, directory, path that does not exist).
C12_GetDirectory ==
    probe.fn = "getDirectory" =>
        /\ probe.out = IF probe.p # <<>> /\ probe.p[1] = "/" /\ probe.p \in files
                       THEN ContainingDirectory(probe.p)
                       ELSE probe.p
        /\ (probe.out # probe.p) <=>
              (probe.p # <<>> /\ probe.p[1] = "/" /\ probe.p \in files)

\* C12 witness: the existing file's directory
C12_Witness ==
    /\ probe = [fn |-> "getDirectory", p |-> FooIndex, out |-> FooDir]
    /\ files = {FooIndex}

-----------------------------------------------------------------------------
(* Properties of the invocation and the loader, continued *)

\* C13: a callable that gives undefined does not abort the setup: the result
\* is taken as {}, the call goes on to the bookkeeping, and when it returns
\* exactly one entry was appended, whose timings are undefined and not null.
C13_UndefinedIsEmptyResult ==
    \A c \in Callers :
        call[c].returned = <<"undefined">> =>
            /\ call[c].result = <<"result", <<"undefined">>>>
            /\ call[c].pc \in {"getMeta", "returned", "thrown"}
            /\ call[c].pc = "thrown" =>
                  call[c].thrown \in {GetMetaError, AliasError}
            /\ call[c].pc = "returned" =>
                  /\ Len(installedModules) = Len(call[c].pre[1]) + 1
                  /\ installedModules = Append(call[c].pre[1], call[c].entry)
                  /\ call[c].entry.timings = <<"undefined">>
                  /\ call[c].entry.timings # <<"null">>

\* C13 witness: a callable gave undefined and the call returned
C13_Witness ==
    /\ call[1].returned = <<"undefined">>
    /\ call[1].pc = "returned"
    /\ Len(installedModules) = 1

\* a proper prefix or all of the sequence q
IsPrefix(p, q) == Len(p) <= Len(q) /\ p = SubSeq(q, 1, Len(p))

\* C14: the candidates of a string specifier are resolved in the order
\* join(s, 'nuxt'), join(s, 'module'), s, and once a candidate gave a value no
\* later candidate is resolved or loaded, so that the value held (and the
\* callable invoked) is the one of the earliest candidate that loaded.
C14_EarliestCandidateWins ==
    \A c \in Callers :
        call[c].moduleToInstall[1] = "string" =>
            /\ IsPrefix(call[c].resolved, Paths(call[c].moduleToInstall[2]))
            /\ call[c].nuxtModule[1] \in {"function", "object"} =>
                  Len(call[c].resolved) = call[c].nuxtModule[2]
            /\ call[c].invoked # <<>> =>
                  call[c].invoked[1] = <<"function", Len(call[c].resolved)>>

\* the positions of a step in a candidate's history
Steps(it, name) == {n \in 1..Len(it) : it[n] = name}

\* both attempts of the candidate under way have failed
BothFailed(r) ==
    /\ Steps(r.iteration, "rejected") # {}
    /\ Steps(r.iteration, "threw") # {}

\* C15 (as stated): per candidate at most one importModule and at most one
\* requireModule, in that order; requireModule only after importModule
\* failed; when both fail the candidate's error is the one of requireModule.
C15_RequireOnlyAfterFailure ==
    \A c \in Callers :
        LET it == call[c].iteration
        IN /\ Cardinality(Steps(it, "importModule")) <= 1
           /\ Cardinality(Steps(it, "requireModule")) <= 1
           /\ \A n \in Steps(it, "requireModule") :
                 /\ Steps(it, "importModule") = {1}
                 /\ it[2] = "rejected"
                 /\ n = 3
           /\ BothFailed(call[c]) =>
                 call[c].error = <<"LoadError", Len(call[c].resolved)>>

\* C15 (amended): per candidate at most one importModule and at most one
\* requireModule, in that order; requireModule only after importModule
\* rejected or gave null or undefined; when both fail the candidate's error is
\* the one of requireModule, never one of importModule.
C15_RequireAfterFailureOrNullish ==
    \A c \in Callers :
        LET it == call[c].iteration
        IN /\ Cardinality(Steps(it, "importModule")) <= 1
           /\ Cardinality(Steps(it, "requireModule")) <= 1
           /\ \A n \in Steps(it, "requireModule") :
                 /\ Steps(it, "importModule") = {1}
                 /\ it[2] \in {"rejected", "nullish"}
                 /\ n = 3
           /\ Steps(it, "threw") # {} =>
                 call[c].error = <<"LoadError", Len(call[c].resolved)>>
           /\ call[c].error[1] # "ImportError"
           /\ call[c].thrown[1] # "ImportError"

\* C15 witness: both attempts of the first candidate failed
C15_Witness ==
    /\ call[1].iteration = <<"importModule", "rejected", "requireModule", "threw">>
    /\ call[1].error = <<"LoadError", 1>>
    /\ call[1].pc = "resolvePath"

\* C16: a resolvePath that fails for one candidate only disqualifies that
\* candidate: the call does not end with the resolver's error while another
\* candidate is left to try.
C16_ResolveFailureSkipsCandidate ==
    \A c \in Callers :
        \A k \in 1..2 : call[c].thrown # <<"ResolveError", k>>

-----------------------------------------------------------------------------
(* Properties of the module search paths *)

\* resolve(srcDir, modules-dir) of the layers whose srcDir is not Vendored
LayerDirsExcept(Vendored(_)) ==
    {layers[n].srcDir \o
        <<"/", IF layers[n].modules[1] = "string"
               THEN layers[n].modules[2] ELSE "modules">> :
        n \in {m \in 1..Len(layers) : ~Vendored(layers[m].srcDir)}}

\* some segment of p is named node_modules
HasVendoredSegment(p) == \E n \in 1..Len(p) : p[n] = "node_modules"

\* a segment of p named node_modules has a separator on both of its sides
HasInnerVendoredSegment(p) ==
    \E n \in 2..(Len(p) - 1) :
        p[n - 1] = "/" /\ p[n] = "node_modules" /\ p[n + 1] = "/"

\* the search paths after a non-aborted install of a string specifier, when
\* the local layer directories are those of the layers that are not Vendored
SearchPathsFollow(r, Vendored(_)) ==
    LET s == r.moduleToInstall[2]
        d == GetDirectory(s)
    IN modulesDir = IF d # s /\ d \notin LayerDirsExcept(Vendored)
                    THEN Append(r.pre[3], d)
                    ELSE r.pre[3]

\* C17 (as stated): getDirectory(s) is appended to modulesDir iff it differs
\* from s and is not the modules directory of a layer whose srcDir has no
\* segment named node_modules, the last segment included; at most one entry
\* is appended per call.
C17_AnyVendoredSegment ==
    \A c \in Callers :
        /\ AppendedTranspile(call[c]) =>
              SearchPathsFollow(call[c], HasVendoredSegment)
        /\ call[c].pc # "idle" => Len(modulesDir) <= Len(call[c].pre[3]) + 1

\* C17 (amended): getDirectory(s) is appended to modulesDir iff it differs
\* from s and is not the modules directory of a layer whose srcDir has no
\* segment named node_modules with a separator before and after it (a srcDir
\* that ends in node_modules is not vendored); at most one entry per call.
C17_InnerVendoredSegment ==
    \A c \in Callers :
        /\ AppendedTranspile(call[c]) =>
              SearchPathsFollow(call[c], HasInnerVendoredSegment)
        /\ call[c].pc # "idle" => Len(modulesDir) <= Len(call[c].pre[3]) + 1

\* C17 witness: the modules directory of a layer that is node_modules itself
\* is taken as local and is not appended
C17_Witness ==
    /\ AppendedTranspile(call[1])
    /\ call[1].moduleToInstall = Str(RootModule)
    /\ layers[Len(layers)].srcDir = VendoredRoot
    /\ modulesDir = call[1].pre[3]

\* C17 witness of the append: a file of a vendored layer
C17_AppendWitness ==
    /\ AppendedTranspile(call[1])
    /\ call[1].moduleToInstall = Str(LayerModule)
    /\ modulesDir = Append(call[1].pre[3], Join(VendoredLayerDir, "modules"))

-----------------------------------------------------------------------------
(* Properties of the invocation convention *)

\* C18: the convention follows the compatibility flag of the nuxt that was
\* passed to installModule: a Nuxt 2 context makes its moduleContainer the
\* receiver of the call, any other context means a call without receiver.
C18_ConventionOfPassedContext ==
    \A c \in Callers :
        call[c].invoked # <<>> =>
            call[c].receiver = IF nuxt2 THEN "nuxt.moduleContainer" ELSE "none"

-----------------------------------------------------------------------------
(* Properties of the ledger and the transpile list taken together *)

\* the positions of the ledger entries that have an entryPath
WithEntryPath ==
    {n \in 1..Len(installedModules) :
        installedModules[n].entryPath # <<"undefined">>}

\* no call is under way and none threw after its callable had returned
QuietAndUnfailed ==
    \A c \in Callers :
        /\ call[c].pc \in {"idle", "returned", "thrown"}
        /\ ~call[c].failedLate

\* C19: over sequential calls on a context whose ledger and transpile list
\* began empty, a call that pushed an entry with entryPath had appended a
\* transpile entry before, the ledger entries with entryPath are never more
\* than the transpile entries, and they are as many between calls as long as
\* no call threw after its callable had returned.
C19_EntryPathsWithinTranspile ==
    /\ Cardinality(WithEntryPath) <= Len(transpile)
    /\ QuietAndUnfailed => Cardinality(WithEntryPath) = Len(transpile)
    /\ \A c \in Callers :
          (call[c].pc = "returned" /\ call[c].moduleToInstall[1] = "string"
              /\ call[c].result # <<"boolean", "false">>) =>
                /\ call[c].entry.entryPath # <<"undefined">>
                /\ Len(transpile) = Len(call[c].pre[2]) + 1

\* C19 witness: a callable and a specifier were installed one after the other
C19_Witness ==
    /\ Len(installedModules) = 2
    /\ Cardinality(WithEntryPath) = 1
    /\ Len(transpile) = 1
    /\ QuietAndUnfailed

\* C19 witness of the inequality: a call threw after its callable returned
C19_LateFailureWitness ==
    /\ call[1].failedLate
    /\ call[1].pc = "thrown"
    /\ Cardinality(WithEntryPath) < Len(transpile)

-----------------------------------------------------------------------------
(* Properties of interleaved calls *)

\* the call returned normally and its callable did not return false
Installed(r) == r.pc = "returned" /\ r.result # <<"boolean", "false">>

\* the callers whose call was given a string specifier
StringCallers == {c \in Callers : call[c].moduleToInstall[1] = "string"}

\* the sequence q holds the values of f, once for each element of S
HoldsOnePerCaller(q, f, S) ==
    /\ Len(q) = Cardinality(S)
    /\ \E order \in [1..Len(q) -> S] :
          /\ \A m, n \in 1..Len(q) : order[m] = order[n] => m = n
          /\ \A n \in 1..Len(q) : q[n] = f[order[n]]

\* C20: when two interleaved calls have both returned normally without a
\* false result, the ledger holds exactly one entry for each call and the
\* transpile list holds exactly one entry for each call of a string
\* specifier, in some order.
C20_NoLostUpdate ==
    (\A c \in Callers : Installed(call[c])) =>
        /\ HoldsOnePerCaller(installedModules,
                             [c \in Callers |-> call[c].entry], Callers)
        /\ HoldsOnePerCaller(transpile,
                             [c \in StringCallers |->
                                 IF FooIndex \in files
                                 THEN <<"foo">> ELSE <<"foo", "/", "index.js">>],
                             StringCallers)

\* C20 witness: two calls that began before either pushed anything, with the
\* entry of the second caller first in the ledger
C20_Witness ==
    /\ \A c \in Callers : Installed(call[c])
    /\ \A c \in Callers : call[c].pre[1] = <<>> /\ call[c].pre[2] = <<>>
    /\ call[1].moduleToInstall = Fn(0)
    /\ call[2].moduleToInstall = Str(FooIndex)
    /\ installedModules = <<call[2].entry, call[1].entry>>
    /\ Len(transpile) = 1

\* C20 witness of equal entries: both calls installed the same callable
C20_SameCallableWitness ==
    /\ \A c \in Callers : Installed(call[c])
    /\ call[1].entry = call[2].entry
    /\ Len(installedModules) = 2

====
